---- MODULE Spec2Model ----
(***************************************************************************)
(* Study Buddy agent: the four study tools of src/tools.ts over the two   *)
(* SQLite tables created by Chat.initializeDatabase, the chat turn of     *)
(* Chat.onChatMessage with its step budget, the message sanitizer, and    *)
(* the accuracy arithmetic of getStudyStats (IEEE-754 doubles).            *)
(***************************************************************************)
EXTENDS Integers, Sequences, FiniteSets

\* ---------------------------------------------------------------- bounds
MaxResultId == 2
MaxTotal == 40
MaxTurnId == 1
MaxMessages == 2
MaxParts == 2

\* ------------------------------------------------------ program constants
MaxSteps == 10
RecentLimit == 5
Percent == 100
Precision == 53

VARIABLES
  dbInitialized,    \* Chat.dbInitialized, the in-memory flag
  tables,           \* names of the tables that exist in the instance's storage
  study_sessions,   \* rows of study_sessions, in insertion (created_at) order
  quiz_results,     \* rows of quiz_results
  foreignKeys,      \* the storage engine enforces declared FOREIGN KEYs
  last,             \* the last operation: its inputs, what it did, its result
  initCalled,       \* history: initializeDatabase was called in this lifetime
  sessionInserts,   \* history: study_sessions inserts that succeeded
  resultInserts,    \* history: quiz_results inserts that succeeded
  insertFailed,     \* history: some insert has failed
  answerCalls,      \* history: the checkAnswer/saveProgress calls of a run in
  correctCalls,     \*   which every insert succeeded (correctCalls: those with
                    \*   isCorrect = true); 0 once an insert has failed
  phase,            \* of the chat turn: idle, streaming, finished, failed
  steps,            \* steps the engine has completed in the turn
  abortRaised,      \* the turn's abort signal has been raised
  finishReason,     \* Some(reason) once onFinish has been called for the turn
  messages,         \* the message history handed to the sanitizer
  sanitized,        \* the sanitizer's output
  passes,           \* how many times the sanitizer has been applied
  accTotal, accCorrect, accResult   \* inputs and result of the accuracy formula

dbVars == <<dbInitialized, tables, study_sessions, quiz_results, foreignKeys>>
histVars == <<initCalled, sessionInserts, resultInserts, insertFailed,
              answerCalls, correctCalls>>
turnVars == <<phase, steps, abortRaised, finishReason>>
sanVars == <<messages, sanitized, passes>>
accVars == <<accTotal, accCorrect, accResult>>
vars == <<dbInitialized, tables, study_sessions, quiz_results, foreignKeys,
          last, initCalled, sessionInserts, resultInserts, insertFailed,
          answerCalls, correctCalls, phase, steps, abortRaised, finishReason,
          messages, sanitized, passes, accTotal, accCorrect, accResult>>

\* ------------------------------------------------- IEEE-754 double arithmetic
\* A positive double is [m |-> mantissa bits, least significant first,
\* Precision of them with the top bit 1, k |-> number of fraction bits]:
\* its value is (integer m) * 2^(-k).  Zero is the empty mantissa.
Zero == [m |-> <<>>, k |-> 0]

RECURSIVE Pow2(_)
Pow2(n) == IF n = 0 THEN 1 ELSE 2 * Pow2(n - 1)

RECURSIVE Reverse(_)
Reverse(s) == IF s = <<>> THEN <<>> ELSE Reverse(Tail(s)) \o <<Head(s)>>

\* value of a short bit string, least significant bit first
RECURSIVE BitsValue(_)
BitsValue(b) == IF b = <<>> THEN 0 ELSE Head(b) + 2 * BitsValue(Tail(b))

\* bits of a small natural number, least significant bit first
RECURSIVE NatBits(_)
NatBits(n) == IF n = 0 THEN <<>> ELSE <<n % 2>> \o NatBits(n \div 2)

\* mantissa + 1, least significant bit first (may grow by one bit)
RECURSIVE IncBits(_)
IncBits(b) ==
  IF b = <<>> THEN <<1>>
  ELSE IF Head(b) = 0 THEN <<1>> \o Tail(b)
  ELSE <<0>> \o IncBits(Tail(b))

\* smallest s with r * 2^s >= t   (0 < r <= t)
RECURSIVE LeadShift(_, _)
LeadShift(r, t) == IF r >= t THEN 0 ELSE 1 + LeadShift(2 * r, t)

\* n further quotient bits of r / t (r < t), most significant first
RECURSIVE QuotBits(_, _, _)
QuotBits(r, t, n) ==
  IF n = 0 THEN <<>>
  ELSE LET b == IF 2 * r >= t THEN 1 ELSE 0
       IN  <<b>> \o QuotBits(2 * r - b * t, t, n - 1)

\* the remainder left after those n bits
RECURSIVE QuotRem(_, _, _)
QuotRem(r, t, n) ==
  IF n = 0 THEN r
  ELSE LET b == IF 2 * r >= t THEN 1 ELSE 0
       IN  QuotRem(2 * r - b * t, t, n - 1)

\* round-to-nearest, ties-to-even: `up` says whether the exact value lies
\* above the truncated mantissa by more than half an ulp (or by exactly half
\* with an odd mantissa); a carry out of the top bit renormalises.
Renormalise(m, k, up) ==
  IF ~up THEN [m |-> m, k |-> k]
  ELSE LET n == IncBits(m)
       IN  IF Len(n) > Precision THEN [m |-> Tail(n), k |-> k - 1]
           ELSE [m |-> n, k |-> k]

\* c / t as a double, 0 <= c <= t, t > 0   (the JavaScript `/`)
DoubleDiv(c, t) ==
  IF c = 0 THEN Zero
  ELSE LET s    == LeadShift(c, t)
           r0   == c * Pow2(s) - t
           trm  == QuotRem(r0, t, Precision - 1)
           m    == Reverse(<<1>> \o QuotBits(r0, t, Precision - 1))
           up   == \/ 2 * trm > t
                   \/ 2 * trm = t /\ m[1] = 1
       IN  Renormalise(m, s + Precision - 1, up)

\* exact product mantissa * f, least significant bit first
RECURSIVE MulBits(_, _, _)
MulBits(b, f, carry) ==
  IF b = <<>> THEN NatBits(carry)
  ELSE LET v == Head(b) * f + carry
       IN  <<v % 2>> \o MulBits(Tail(b), f, v \div 2)

\* d * f as a double, f a small positive integer   (the JavaScript `*`)
DoubleMul(d, f) ==
  IF d.m = <<>> THEN Zero
  ELSE LET p    == MulBits(d.m, f, 0)
           drop == Len(p) - Precision
           low  == BitsValue(SubSeq(p, 1, drop))
           high == SubSeq(p, drop + 1, Len(p))
           half == IF drop = 0 THEN 0 ELSE Pow2(drop - 1)
           up   == /\ drop > 0
                   /\ \/ low > half
                      \/ low = half /\ high[1] = 1
       IN  Renormalise(high, d.k - drop, up)

\* Math.round: the nearest integer, a tie going up; on a double this is the
\* integer part plus its first fraction bit.
MathRound(d) ==
  IF d.m = <<>> THEN 0
  ELSE LET n    == Len(d.m)
           int  == IF d.k >= n THEN 0
                   ELSE IF d.k <= 0 THEN BitsValue(d.m) * Pow2(0 - d.k)
                   ELSE BitsValue(SubSeq(d.m, d.k + 1, n))
           frac == IF d.k >= 1 /\ d.k <= n THEN d.m[d.k] ELSE 0
       IN  int + frac

\* total > 0 ? Math.round((correct / total) * 100) : 0
Accuracy(correct, total) ==
  IF total > 0 THEN MathRound(DoubleMul(DoubleDiv(correct, total), Percent))
  ELSE 0

\* Accuracy over the row counts the tables can hold, tabulated once
MaxRows == IF MaxTurnId > MaxResultId THEN MaxTurnId ELSE MaxResultId

AccuracyOfCounts ==
  [total \in 0..MaxRows |->
     [correct \in 0..total |-> Accuracy(correct, total)]]

\* round(100 * correct / total) over the rationals, a tie going up
ExactRound(correct, total) == (2 * Percent * correct + total) \div (2 * total)

\* ------------------------------------------------------------ input sets
\* what generateId() can return for a session, and what a caller can pass
\* as a sessionId: a result can refer to one session, to the other, or to a
\* session that was never written
SessionIdSpace == { 1, 2 }
\* what generateId() can return for a result
ResultIdSpace == 1..MaxResultId
Topics == { <<"P", "y">> }
Difficulties == { "medium" }
QuestionCounts == { 5 }
Texts == { "CO2" }                   \* question and answer texts
\* an optional input is a sequence of at most one value
None == <<>>
Some(x) == <<x>>
Explanations == { None, Some("") }
QueryTopics == { None, Some(<<>>), Some(<<"p", "y">>), Some(<<"j">>) }
AllTables == { "study_sessions", "quiz_results" }

\* ------------------------------------------------------------ the storage
SessionIds == { study_sessions[i].id : i \in 1..Len(study_sessions) }
ResultIds == { r.id : r \in quiz_results }

\* variant: the PRIMARY KEY is not checked
SessionInsertOkNoKey(id, io) ==
  /\ io
  /\ "study_sessions" \in tables

\* INSERT INTO study_sessions: rejected when the storage fails (io = FALSE),
\* the table is missing, or the PRIMARY KEY is taken
SessionInsertOk(id, io) ==
  /\ io
  /\ "study_sessions" \in tables
  /\ id \notin SessionIds

\* INSERT INTO quiz_results, the reference to study_sessions apart: likewise
ResultStorageOk(id, io) ==
  /\ io
  /\ "quiz_results" \in tables
  /\ id \notin ResultIds

\* FOREIGN KEY (session_id) REFERENCES study_sessions(id): checked by an
\* engine that enforces foreign keys, ignored by one that does not
ReferenceOk(sessionId) == foreignKeys => sessionId \in SessionIds

ResultInsertOk(id, sessionId, io) ==
  /\ ResultStorageOk(id, io)
  /\ ReferenceOk(sessionId)

SessionsAfterInsert(rows, row, ok) == IF ok THEN Append(rows, row) ELSE rows

\* variant: one result per session, the new row replacing the old one
ResultsAfterUpsert(rows, row, ok) ==
  IF ok THEN { r \in rows : r.session_id # row.session_id } \cup {row}
  ELSE rows

ResultsAfterInsert(rows, row, ok) == IF ok THEN rows \cup {row} ELSE rows

\* ------------------------------------------------ Chat.initializeDatabase
\* variant: the flag is not consulted
InitializeDatabaseRunNoFlag(flag, fail) ==
  IF fail = 1 THEN <<1, TRUE, tables, flag>>
  ELSE IF fail = 2 THEN <<2, TRUE, tables \cup {"study_sessions"}, flag>>
  ELSE <<2, FALSE, tables \cup AllTables, TRUE>>

\* fail = 0: both statements run; fail = n: statement n throws.
\* The result is <<statements issued, threw, tables, flag>>.
InitializeDatabaseRun(flag, fail) ==
  IF flag THEN <<0, FALSE, tables, flag>>
  ELSE IF fail = 1 THEN <<1, TRUE, tables, flag>>
  ELSE IF fail = 2 THEN <<2, TRUE, tables \cup {"study_sessions"}, flag>>
  ELSE <<2, FALSE, tables \cup AllTables, TRUE>>

InitializeDatabaseExec(fail) ==
  LET run == InitializeDatabaseRun(dbInitialized, fail)
  IN  /\ tables' = run[3]
      /\ dbInitialized' = run[4]
      /\ initCalled' = TRUE
      /\ last' = [op |-> "initializeDatabase", repeated |-> initCalled,
                  wasInitialized |-> dbInitialized,
                  statements |-> run[1], threw |-> run[2]]
      /\ UNCHANGED <<study_sessions, quiz_results, foreignKeys, sessionInserts,
                     resultInserts, insertFailed, answerCalls, correctCalls>>

\* a new instance over the same storage: the field initialiser runs again
RestartExec ==
  /\ dbInitialized' = FALSE
  /\ initCalled' = FALSE
  /\ last' = [op |-> "restart"]
  /\ UNCHANGED <<tables, study_sessions, quiz_results, foreignKeys,
                 sessionInserts, resultInserts, insertFailed, answerCalls,
                 correctCalls>>

\* ------------------------------------------------------------ generateQuiz
\* variant: no session id is handed out when the insert failed
GenerateQuizResultFlagged(sessionId, topic, difficulty, numberOfQuestions, ok) ==
  [sessionId |-> IF ok THEN sessionId ELSE 0, topic |-> topic,
   difficulty |-> difficulty, numberOfQuestions |-> numberOfQuestions,
   instruction |-> <<"Generate", numberOfQuestions, difficulty, topic>>]

GenerateQuizResult(sessionId, topic, difficulty, numberOfQuestions, ok) ==
  [sessionId |-> sessionId, topic |-> topic, difficulty |-> difficulty,
   numberOfQuestions |-> numberOfQuestions,
   instruction |-> <<"Generate", numberOfQuestions, difficulty, topic>>]

GenerateQuizExec(sessionId, topic, difficulty, numberOfQuestions, io) ==
  LET ok == SessionInsertOk(sessionId, io)
  IN  /\ study_sessions' =
           SessionsAfterInsert(study_sessions,
                               [id |-> sessionId, topic |-> topic], ok)
      /\ sessionInserts' = IF ok THEN sessionInserts + 1 ELSE sessionInserts
      /\ insertFailed' = (insertFailed \/ ~ok)
      /\ answerCalls' = IF insertFailed' THEN 0 ELSE answerCalls
      /\ correctCalls' = IF insertFailed' THEN 0 ELSE correctCalls
      /\ last' = [op |-> "generateQuiz", generatedId |-> sessionId,
                  insertOk |-> ok,
                  logged |-> IF ok THEN None
                             ELSE Some("Error creating study session:"),
                  threw |-> FALSE,
                  result |-> GenerateQuizResult(sessionId, topic, difficulty,
                                                numberOfQuestions, ok)]
      /\ UNCHANGED <<dbInitialized, tables, quiz_results, foreignKeys,
                     initCalled, resultInserts>>

\* ------------------------------------------------------------- checkAnswer
IsCorrectInt(isCorrect) == IF isCorrect THEN 1 ELSE 0

CheckAnswerResult(resultId, isCorrect, studentAnswer, correctAnswer, ok) ==
  [resultId |-> resultId, isCorrect |-> isCorrect,
   studentAnswer |-> studentAnswer, correctAnswer |-> correctAnswer,
   instruction |-> IF isCorrect THEN "The student got it right!"
                   ELSE "The student got it wrong."]

\* the history of answer calls, kept while no insert has failed
AnswerHistory(isCorrect, ok) ==
  /\ insertFailed' = (insertFailed \/ ~ok)
  /\ resultInserts' = IF ok THEN resultInserts + 1 ELSE resultInserts
  /\ answerCalls' = IF insertFailed' THEN 0 ELSE answerCalls + 1
  /\ correctCalls' = IF insertFailed' THEN 0
                     ELSE correctCalls + IsCorrectInt(isCorrect)

CheckAnswerExec(resultId, sessionId, question, studentAnswer, correctAnswer, isCorrect, io) ==
  LET ok == ResultInsertOk(resultId, sessionId, io)
      row == [id |-> resultId, session_id |-> sessionId,
              question |-> question, user_answer |-> studentAnswer,
              correct_answer |-> correctAnswer,
              is_correct |-> IsCorrectInt(isCorrect), explanation |-> None]
  IN  /\ quiz_results' = ResultsAfterInsert(quiz_results, row, ok)
      /\ AnswerHistory(isCorrect, ok)
      /\ last' = [op |-> "checkAnswer", generatedId |-> resultId,
                  sessionKnown |-> sessionId \in SessionIds,
                  storageOk |-> ResultStorageOk(resultId, io),
                  insertOk |-> ok,
                  logged |-> IF ok THEN None
                             ELSE Some("Error saving quiz result:"),
                  threw |-> FALSE,
                  result |-> CheckAnswerResult(resultId, isCorrect,
                                               studentAnswer, correctAnswer,
                                               ok)]
      /\ UNCHANGED <<dbInitialized, tables, study_sessions, foreignKeys,
                     initCalled, sessionInserts>>

\* ------------------------------------------------------------ saveProgress
\* variant: the catch block answers like the try block
SaveProgressResultAlwaysSuccess(resultId, ok) ==
  [success |-> TRUE, resultId |-> resultId,
   message |-> "Progress saved successfully"]

SaveProgressResult(resultId, ok) ==
  IF ok THEN [success |-> TRUE, resultId |-> resultId,
              message |-> "Progress saved successfully"]
  ELSE [success |-> FALSE, error |-> "Failed to save progress"]

\* explanation || null
ExplanationValue(explanation) ==
  IF explanation = None \/ explanation = Some("") THEN None ELSE explanation

SaveProgressExec(resultId, sessionId, question, userAnswer, correctAnswer, isCorrect, explanation, io) ==
  LET ok == ResultInsertOk(resultId, sessionId, io)
      row == [id |-> resultId, session_id |-> sessionId,
              question |-> question, user_answer |-> userAnswer,
              correct_answer |-> correctAnswer,
              is_correct |-> IsCorrectInt(isCorrect),
              explanation |-> ExplanationValue(explanation)]
  IN  /\ quiz_results' = ResultsAfterInsert(quiz_results, row, ok)
      /\ AnswerHistory(isCorrect, ok)
      /\ last' = [op |-> "saveProgress", generatedId |-> resultId,
                  sessionKnown |-> sessionId \in SessionIds,
                  storageOk |-> ResultStorageOk(resultId, io),
                  insertOk |-> ok,
                  logged |-> IF ok THEN None
                             ELSE Some("Error saving progress:"),
                  threw |-> FALSE,
                  result |-> SaveProgressResult(resultId, ok)]
      /\ UNCHANGED <<dbInitialized, tables, study_sessions, foreignKeys,
                     initCalled, sessionInserts>>

\* ----------------------------------------------------------- getStudyStats
\* SQLite's LIKE folds ASCII case
Lower(c) ==
  CASE c = "P" -> "p" [] c = "Y" -> "y" [] c = "J" -> "j" [] c = "S" -> "s"
    [] OTHER -> c

LowerSeq(t) == [i \in 1..Len(t) |-> Lower(t[i])]

\* text LIKE '%' || topic || '%'
Like(text, topic) ==
  \E i \in 0..(Len(text) - Len(topic)) :
    SubSeq(LowerSeq(text), i + 1, i + Len(topic)) = LowerSeq(topic)

\* SELECT COUNT(*) FROM quiz_results
CountResults == Cardinality(quiz_results)

\* variant: the WHERE clause is missing
CountCorrectAll == Cardinality(quiz_results)

\* SELECT COUNT(*) FROM quiz_results WHERE is_correct = 1
CountCorrect == Cardinality({ r \in quiz_results : r.is_correct = 1 })

\* SELECT DISTINCT topic, COUNT(*) FROM study_sessions GROUP BY topic
\* (the set of the rows; their order is not modelled)
TopicsStudied ==
  { [topic |-> t,
     sessionCount |->
       Cardinality({ i \in 1..Len(study_sessions) : study_sessions[i].topic = t })]
    : t \in { study_sessions[i].topic : i \in 1..Len(study_sessions) } }

\* variant: the ON condition of the join is missing
SessionRowCrossJoin(i) ==
  LET s == study_sessions[i]
      answered == Cardinality(quiz_results)
      correct == Cardinality({ r \in quiz_results : r.is_correct = 1 })
  IN  [topic |-> s.topic, date |-> i, questionsAnswered |-> answered,
       correctCount |-> correct, accuracy |-> AccuracyOfCounts[answered][correct]]

\* one row of: study_sessions s LEFT JOIN quiz_results r ON s.id = r.session_id
\*             GROUP BY s.id
SessionRow(i) ==
  LET s == study_sessions[i]
      answered == Cardinality({ r \in quiz_results : r.session_id = s.id })
      correct == Cardinality({ r \in quiz_results :
                                 r.session_id = s.id /\ r.is_correct = 1 })
  IN  [topic |-> s.topic, date |-> i, questionsAnswered |-> answered,
       correctCount |-> correct, accuracy |-> AccuracyOfCounts[answered][correct]]

\* ORDER BY s.created_at DESC LIMIT 5: the latest rows first
RecentSessions ==
  LET n == Len(study_sessions)
      k == IF n < RecentLimit THEN n ELSE RecentLimit
  IN  [j \in 1..k |-> SessionRow(n + 1 - j)]

\* quiz_results r JOIN study_sessions s ON r.session_id = s.id
\* WHERE s.topic LIKE '%topic%'
TopicResults(topic) ==
  { r \in quiz_results :
      \E i \in 1..Len(study_sessions) :
        /\ study_sessions[i].id = r.session_id
        /\ Like(study_sessions[i].topic, topic) }

\* `if (topic)`: an absent or empty topic gives topicStats = null
TopicStats(topic) ==
  IF topic = None \/ topic = Some(<<>>) THEN None
  ELSE LET rows == TopicResults(topic[1])
           total == Cardinality(rows)
           correct == Cardinality({ r \in rows : r.is_correct = 1 })
       IN  Some([topic |-> topic[1], totalQuestions |-> total,
                 correctAnswers |-> correct,
                 accuracy |-> AccuracyOfCounts[total][correct]])

\* variant: the call is suspended between its two count queries and a correct
\* answer is inserted meanwhile
GetStudyStatsResultSuspended(topic, io) ==
  IF io /\ AllTables \subseteq tables
  THEN [overall |-> [totalQuestionsAnswered |-> CountResults,
                     correctAnswers |-> CountCorrect + 1,
                     accuracy |-> Accuracy(CountCorrect + 1, CountResults)],
        topicsStudied |-> TopicsStudied,
        recentSessions |-> RecentSessions,
        topicStats |-> TopicStats(topic),
        instruction |-> "Present these statistics"]
  ELSE [error |-> "Unable to fetch study statistics",
        instruction |-> "Let the student know"]

GetStudyStatsResult(topic, io) ==
  IF io /\ AllTables \subseteq tables
  THEN [overall |-> [totalQuestionsAnswered |-> CountResults,
                     correctAnswers |-> CountCorrect,
                     accuracy |-> AccuracyOfCounts[CountResults][CountCorrect]],
        topicsStudied |-> TopicsStudied,
        recentSessions |-> RecentSessions,
        topicStats |-> TopicStats(topic),
        instruction |-> "Present these statistics"]
  ELSE [error |-> "Unable to fetch study statistics",
        instruction |-> "Let the student know"]

GetStudyStatsExec(topic, io) ==
  /\ last' = [op |-> "getStudyStats", queriesOk |-> (io /\ AllTables \subseteq tables),
              logged |-> IF io /\ AllTables \subseteq tables THEN None
                         ELSE Some("Error fetching study stats:"),
              threw |-> FALSE,
              result |-> GetStudyStatsResult(topic, io)]
  /\ UNCHANGED <<dbInitialized, tables, study_sessions, quiz_results,
                 foreignKeys, initCalled, sessionInserts, resultInserts,
                 insertFailed, answerCalls, correctCalls>>

\* ------------------------------------------- the tools on one agent instance
\* Tools run inside a chat turn, after onChatMessage has run
\* initializeDatabase without an error.
\* whether foreign keys are enforced is a setting of the storage engine that
\* the program never reads or changes
AnyEngine == foreignKeys \in BOOLEAN

FreshInstance ==
  /\ dbInitialized = FALSE
  /\ tables = {}
  /\ study_sessions = <<>>
  /\ quiz_results = {}
  /\ last = [op |-> "none"]
  /\ initCalled = FALSE
  /\ sessionInserts = 0
  /\ resultInserts = 0
  /\ insertFailed = FALSE
  /\ answerCalls = 0
  /\ correctCalls = 0

AccIdle ==
  /\ accTotal = 0
  /\ accCorrect = 0
  /\ accResult = -1

TurnIdle ==
  /\ phase = "idle"
  /\ steps = 0
  /\ abortRaised = FALSE
  /\ finishReason = None

SanIdle ==
  /\ messages = <<>>
  /\ sanitized = <<>>
  /\ passes = 0

Init == AnyEngine /\ FreshInstance /\ TurnIdle /\ SanIdle /\ AccIdle

InitializeDatabase ==
  /\ \E fail \in 0..2 : InitializeDatabaseExec(fail)
  /\ UNCHANGED <<turnVars, sanVars, accVars>>

Restart ==
  /\ RestartExec
  /\ UNCHANGED <<turnVars, sanVars, accVars>>

GenerateQuiz ==
  /\ dbInitialized
  /\ \E sessionId \in SessionIdSpace, topic \in Topics, difficulty \in Difficulties,
        numberOfQuestions \in QuestionCounts, io \in BOOLEAN :
       GenerateQuizExec(sessionId, topic, difficulty, numberOfQuestions, io)
  /\ UNCHANGED <<turnVars, sanVars, accVars>>

CheckAnswer ==
  /\ dbInitialized
  /\ \E resultId \in ResultIdSpace, sessionId \in SessionIdSpace, question \in Texts,
        studentAnswer \in Texts, correctAnswer \in Texts,
        isCorrect \in BOOLEAN, io \in BOOLEAN :
       CheckAnswerExec(resultId, sessionId, question, studentAnswer,
                       correctAnswer, isCorrect, io)
  /\ UNCHANGED <<turnVars, sanVars, accVars>>

GetStudyStats ==
  /\ dbInitialized
  /\ \E topic \in QueryTopics, io \in BOOLEAN : GetStudyStatsExec(topic, io)
  /\ UNCHANGED <<turnVars, sanVars, accVars>>

SaveProgress ==
  /\ dbInitialized
  /\ \E resultId \in ResultIdSpace, sessionId \in SessionIdSpace, question \in Texts,
        userAnswer \in Texts, correctAnswer \in Texts,
        isCorrect \in BOOLEAN, explanation \in Explanations, io \in BOOLEAN :
       SaveProgressExec(resultId, sessionId, question, userAnswer,
                        correctAnswer, isCorrect, explanation, io)
  /\ UNCHANGED <<turnVars, sanVars, accVars>>

Next ==
  \/ InitializeDatabase
  \/ Restart
  \/ GenerateQuiz
  \/ CheckAnswer
  \/ GetStudyStats
  \/ SaveProgress

Spec == Init /\ [][Next]_vars

\* ------------------------------------------------- Chat.onChatMessage
\* variant: the budget is one step too long
StopWhenOneLater(n) == n = MaxSteps + 1

\* stopWhen: stepCountIs(10), evaluated on the number of completed steps
StopWhen(n) == n = MaxSteps

TurnIdSpace == 1..MaxTurnId
ToolNames == { "generateQuiz", "checkAnswer", "getStudyStats", "saveProgress" }

\* onChatMessage up to the point where the stream is handed back:
\* initializeDatabase runs first and its error ends the turn; the abort
\* signal of _options is received and not passed on.
OnChatMessage ==
  /\ phase # "streaming"
  /\ \E fail \in 0..2 :
       /\ InitializeDatabaseExec(fail)
       /\ phase' = IF InitializeDatabaseRun(dbInitialized, fail)[2]
                   THEN "failed" ELSE "streaming"
  /\ steps' = 0
  /\ abortRaised' = FALSE
  /\ finishReason' = None
  /\ UNCHANGED <<sanVars, accVars>>

\* the tool call of one step, executed by streamText
ToolCall ==
  \/ \E sessionId \in TurnIdSpace, topic \in Topics,
        difficulty \in Difficulties, numberOfQuestions \in QuestionCounts,
        io \in BOOLEAN :
       GenerateQuizExec(sessionId, topic, difficulty, numberOfQuestions, io)
  \/ \E resultId \in TurnIdSpace, sessionId \in TurnIdSpace,
        question \in Texts, studentAnswer \in Texts, correctAnswer \in Texts,
        isCorrect \in BOOLEAN, io \in BOOLEAN :
       CheckAnswerExec(resultId, sessionId, question, studentAnswer,
                       correctAnswer, isCorrect, io)
  \/ \E topic \in QueryTopics, io \in BOOLEAN : GetStudyStatsExec(topic, io)
  \/ \E resultId \in TurnIdSpace, sessionId \in TurnIdSpace,
        question \in Texts, userAnswer \in Texts, correctAnswer \in Texts,
        isCorrect \in BOOLEAN, explanation \in Explanations, io \in BOOLEAN :
       SaveProgressExec(resultId, sessionId, question, userAnswer,
                        correctAnswer, isCorrect, explanation, io)

\* a step in which the engine requests a tool call: the tool runs, the step
\* is counted, and the loop goes on unless the stop condition holds
EngineToolStep ==
  /\ phase = "streaming"
  /\ ToolCall
  /\ steps' = steps + 1
  /\ phase' = IF StopWhen(steps') THEN "finished" ELSE "streaming"
  /\ finishReason' = IF StopWhen(steps') THEN Some("tool-calls") ELSE None
  /\ UNCHANGED <<abortRaised, sanVars, accVars>>

\* a step in which the engine only writes text: the loop ends
EngineTextStep ==
  /\ phase = "streaming"
  /\ steps' = steps + 1
  /\ phase' = "finished"
  /\ finishReason' = Some("stop")
  /\ last' = [op |-> "text"]
  /\ UNCHANGED <<dbVars, histVars, abortRaised, sanVars, accVars>>

\* the engine is unreachable or answers with an error: onFinish is not called
EngineError ==
  /\ phase = "streaming"
  /\ phase' = "failed"
  /\ last' = [op |-> "engineError"]
  /\ UNCHANGED <<dbVars, histVars, steps, abortRaised, finishReason, sanVars,
                 accVars>>

\* the caller raises the abort signal it passed in _options
RaiseAbort ==
  /\ phase = "streaming"
  /\ ~abortRaised
  /\ abortRaised' = TRUE
  /\ UNCHANGED <<dbVars, histVars, last, phase, steps, finishReason, sanVars,
                 accVars>>

TurnInit == AnyEngine /\ FreshInstance /\ TurnIdle /\ SanIdle /\ AccIdle

TurnNext ==
  \/ OnChatMessage
  \/ EngineToolStep
  \/ EngineTextStep
  \/ EngineError
  \/ RaiseAbort

SpecTurn == TurnInit /\ [][TurnNext]_vars

\* ------------------------------------------------ the message sanitizer
\* A message is [id, parts]; a part is text or a tool call, with or
\* without its recorded result.
TextPart == [kind |-> "text", result |-> FALSE]
CompletedCall == [kind |-> "tool-call", result |-> TRUE]
DanglingCall == [kind |-> "tool-call", result |-> FALSE]
PartValues == { TextPart, CompletedCall, DanglingCall }

\* a tool call that was requested and has no recorded result
Dangling(p) == p.kind = "tool-call" /\ ~p.result

Settled(p) == ~Dangling(p)

PartLists == UNION { [1..n -> PartValues] : n \in 0..MaxParts }

\* the history of the messages with these part lists, numbered in order
History(ps) == [i \in 1..Len(ps) |-> [id |-> i, parts |-> ps[i]]]

\* variant: every message that holds a dangling call is dropped whole
RECURSIVE CleanupMessagesDroppingMessages(_)
CleanupMessagesDroppingMessages(h) ==
  IF h = <<>> THEN <<>>
  ELSE LET m == Head(h)
           rest == CleanupMessagesDroppingMessages(Tail(h))
       IN  IF \E i \in 1..Len(m.parts) : Dangling(m.parts[i])
           THEN rest ELSE <<m>> \o rest

\* a message with a dangling call is repaired by removing the call, and
\* stripped when nothing else is left in it
RECURSIVE cleanupMessages(_)
cleanupMessages(h) ==
  IF h = <<>> THEN <<>>
  ELSE LET m == Head(h)
           kept == SelectSeq(m.parts, Settled)
           rest == cleanupMessages(Tail(h))
       IN  IF kept = m.parts THEN <<m>> \o rest
           ELSE IF kept = <<>> THEN rest
           ELSE <<[id |-> m.id, parts |-> kept]>> \o rest

SanInit ==
  /\ foreignKeys = FALSE
  /\ FreshInstance
  /\ TurnIdle
  /\ AccIdle
  /\ \E n \in 0..MaxMessages :
       \E ps \in [1..n -> PartLists] : messages = History(ps)
  /\ sanitized = <<>>
  /\ passes = 0

\* the sanitizer applied to the history, and then to its own output
Sanitize ==
  /\ passes < 2
  /\ sanitized' = cleanupMessages(IF passes = 0 THEN messages ELSE sanitized)
  /\ passes' = passes + 1
  /\ UNCHANGED <<messages, dbVars, last, histVars, turnVars, accVars>>

SanNext == Sanitize

SpecSan == SanInit /\ [][SanNext]_vars

\* --------------------------------------------- accuracy as a pure function
AccInit ==
  /\ foreignKeys = FALSE
  /\ FreshInstance
  /\ TurnIdle
  /\ SanIdle
  /\ accTotal \in 0..MaxTotal
  /\ accCorrect \in 0..accTotal
  /\ accResult = -1

ComputeAccuracy ==
  /\ accResult = -1
  /\ accResult' = Accuracy(accCorrect, accTotal)
  /\ UNCHANGED <<accTotal, accCorrect, dbVars, last, histVars, turnVars,
                 sanVars>>

AccNext == ComputeAccuracy

SpecAcc == AccInit /\ [][AccNext]_vars

\* ===================================================================== claims
IsPrefix(a, b) == Len(a) <= Len(b) /\ SubSeq(b, 1, Len(a)) = a

\* every row of the pre-state is still there, unchanged, in the post-state
RowsKept ==
  /\ IsPrefix(study_sessions, study_sessions')
  /\ quiz_results \subseteq quiz_results'

\* the step is a call of the operation: it leaves the record of a new call
CallOf(op) == last'.op = op /\ last' # last

\* C1: append-only history.  After any sequence of tool calls each table
\* holds as many rows as inserts into it have succeeded, and no step changes
\* or removes a row that exists.
C1_AppendOnly ==
  /\ [](/\ Len(study_sessions) = sessionInserts
        /\ Cardinality(quiz_results) = resultInserts)
  /\ [][RowsKept]_vars

C1_Witness ==
  /\ Len(study_sessions) >= 1
  /\ Cardinality(quiz_results) >= 2
  /\ insertFailed

\* C2: when every insert so far has succeeded, the overall counts that
\* getStudyStats reports are the number of checkAnswer/saveProgress calls and
\* the number of those made with isCorrect = true; one correct answer gives
\* 1, 1 and accuracy 100.
C2_StatsCountCalls ==
  (last.op = "getStudyStats" /\ last.queriesOk /\ ~insertFailed) =>
    /\ last.result.overall.totalQuestionsAnswered = answerCalls
    /\ last.result.overall.correctAnswers = correctCalls
    /\ (answerCalls = 1 /\ correctCalls = 1) =>
         last.result.overall.accuracy = 100

C2_Witness ==
  /\ last.op = "getStudyStats"
  /\ last.queriesOk
  /\ ~insertFailed
  /\ answerCalls = 2
  /\ correctCalls = 1

\* C3: for every total >= 0 and correct in 0..total the reported accuracy is
\* round(100 * correct / total), and 0 when total = 0.
C3_AccuracyIsExactRound ==
  accResult # -1 =>
    accResult = IF accTotal > 0 THEN ExactRound(accCorrect, accTotal) ELSE 0

\* the row a generateQuiz step reports: the returned id with the topic
ReportedSession == [id |-> last'.result.sessionId, topic |-> last'.result.topic]

\* C4 as stated: every generateQuiz call adds exactly one row to
\* study_sessions, with the returned sessionId, which no row had before, and
\* the topic passed in.
C4_OneSessionPerCall ==
  [][CallOf("generateQuiz") =>
       /\ last'.result.sessionId \notin SessionIds
       /\ study_sessions' = Append(study_sessions, ReportedSession)]_vars

\* C4 as amended: a generateQuiz call whose insert succeeds adds exactly one
\* row, with the returned sessionId, which no row had before, and the topic
\* passed in; a call whose insert fails adds none; and no step updates or
\* deletes a row of study_sessions.
C4_OneSessionPerSuccessfulCall ==
  [][/\ CallOf("generateQuiz") =>
          IF last'.insertOk
          THEN /\ last'.result.sessionId \notin SessionIds
               /\ study_sessions' = Append(study_sessions, ReportedSession)
          ELSE study_sessions' = study_sessions
     /\ IsPrefix(study_sessions, study_sessions')]_vars

C4_Witness ==
  /\ last.op = "generateQuiz"
  /\ last.insertOk
  /\ Len(study_sessions) = 2
  /\ study_sessions[2].id = last.result.sessionId

\* C5: saveProgress answers success: true exactly when its insert succeeded,
\* and then a row with the returned resultId exists; it answers
\* success: false exactly when the insert failed, and then quiz_results is
\* unchanged.  The results of generateQuiz and checkAnswer are the same
\* whether their insert succeeded or not.
C5_SaveProgressReports ==
  /\ [](last.op = "saveProgress" =>
          /\ last.result.success = last.insertOk
          /\ last.insertOk =>
               /\ last.result.resultId = last.generatedId
               /\ last.result.message = "Progress saved successfully"
               /\ \E r \in quiz_results : r.id = last.result.resultId
          /\ ~last.insertOk =>
               last.result = [success |-> FALSE,
                              error |-> "Failed to save progress"])
  /\ [](last.op = "generateQuiz" =>
          last.result = GenerateQuizResult(last.generatedId,
                          last.result.topic, last.result.difficulty,
                          last.result.numberOfQuestions, ~last.insertOk))
  /\ [](last.op = "checkAnswer" =>
          last.result = CheckAnswerResult(last.generatedId,
                          last.result.isCorrect, last.result.studentAnswer,
                          last.result.correctAnswer, ~last.insertOk))
  /\ [][(CallOf("saveProgress") /\ ~last'.result.success) =>
          quiz_results' = quiz_results]_vars

C5_Witness ==
  /\ last.op = "saveProgress"
  /\ ~last.result.success
  /\ quiz_results # {}

\* C6: when the insert of generateQuiz or checkAnswer fails, the error is
\* logged and not thrown, the tool returns its usual payload with the
\* generated id, and both tables are left as they were.
C6_SwallowedFailure ==
  /\ []((last.op \in {"generateQuiz", "checkAnswer"} /\ ~last.insertOk) =>
          /\ ~last.threw
          /\ last.logged # None
          /\ last.op = "generateQuiz" =>
               /\ last.result.sessionId = last.generatedId
               /\ last.result.instruction[1] = "Generate"
          /\ last.op = "checkAnswer" =>
               /\ last.result.resultId = last.generatedId
               /\ last.result.instruction =
                    IF last.result.isCorrect THEN "The student got it right!"
                    ELSE "The student got it wrong.")
  /\ [][((CallOf("generateQuiz") \/ CallOf("checkAnswer"))
          /\ ~last'.insertOk) =>
          /\ study_sessions' = study_sessions
          /\ quiz_results' = quiz_results]_vars

\* a returned sessionId that refers to no row
C6_Witness ==
  /\ last.op = "generateQuiz"
  /\ ~last.insertOk
  /\ last.result.sessionId \notin SessionIds

\* C7 as stated: a call of initializeDatabase that is not the first of the
\* instance's lifetime issues no statement and raises no error, and the two
\* tables exist.
C7_RepeatedCallIsNoOp ==
  (last.op = "initializeDatabase" /\ last.repeated) =>
    /\ last.statements = 0
    /\ ~last.threw
    /\ tables = AllTables

\* C7 as amended: a call of initializeDatabase made after one that completed
\* without error in the same lifetime issues no statement and raises no
\* error; after any call that completes without error exactly the two tables
\* exist; and no call touches a row.
C7_CallAfterCompletedIsNoOp ==
  /\ []((last.op = "initializeDatabase" /\ last.wasInitialized) =>
          /\ last.statements = 0
          /\ ~last.threw)
  /\ []((last.op = "initializeDatabase" /\ ~last.threw) =>
          /\ tables = AllTables
          /\ dbInitialized)
  /\ [][CallOf("initializeDatabase") =>
          /\ study_sessions' = study_sessions
          /\ quiz_results' = quiz_results]_vars

C7_Witness ==
  /\ last.op = "initializeDatabase"
  /\ last.wasInitialized
  /\ Len(study_sessions) >= 1
  /\ quiz_results # {}

\* C8: a turn never runs more than 10 steps; a turn that ends on a step
\* that requested a tool call ends at step 10 exactly, through onFinish; and
\* no tool runs once 10 steps are done.
C8_BoundedStepping ==
  /\ [](steps <= MaxSteps)
  /\ [](phase = "streaming" => steps < MaxSteps)
  /\ [](finishReason = Some("tool-calls") =>
          steps = MaxSteps /\ phase = "finished")
  /\ [][(steps' = steps + 1 /\ last'.op \in ToolNames) =>
          steps < MaxSteps]_vars

C8_Witness ==
  /\ phase = "finished"
  /\ steps = MaxSteps
  /\ finishReason = Some("tool-calls")
  /\ last.op \in ToolNames

\* C9: once the abort signal of a turn is raised, the turn takes no further
\* step, no tool inserts a row, and onFinish is not called.
C9_AbortStopsTurn ==
  [][(abortRaised /\ phase = "streaming") =>
       /\ steps' = steps
       /\ study_sessions' = study_sessions
       /\ quiz_results' = quiz_results
       /\ finishReason' = None]_vars

\* the settled parts of a history, in order, each with its message's id
RECURSIVE SettledParts(_)
SettledParts(h) ==
  IF h = <<>> THEN <<>>
  ELSE LET m == Head(h)
           kept == SelectSeq(m.parts, Settled)
       IN  [i \in 1..Len(kept) |-> <<m.id, kept[i]>>]
             \o SettledParts(Tail(h))

\* C10: sanitizing twice gives what sanitizing once gives; the output holds
\* no dangling tool call, holds every text part and every completed tool call
\* of the input, in the input's order, and its messages are in the input's
\* order.
C10_Sanitizer ==
  /\ passes = 2 => sanitized = cleanupMessages(messages)
  /\ passes >= 1 =>
       /\ \A i \in 1..Len(sanitized) :
            \A j \in 1..Len(sanitized[i].parts) :
              ~Dangling(sanitized[i].parts[j])
       /\ SettledParts(sanitized) = SettledParts(messages)
       /\ \A i \in 1..Len(sanitized) :
            \A j \in 1..Len(sanitized) :
              i < j => sanitized[i].id < sanitized[j].id

\* a message with a completed and a dangling call, sanitized twice
C10_Witness ==
  /\ passes = 2
  /\ sanitized # messages
  /\ \E i \in 1..Len(messages) :
       /\ \E j \in 1..Len(messages[i].parts) : Dangling(messages[i].parts[j])
       /\ \E j \in 1..Len(messages[i].parts) :
            messages[i].parts[j] = CompletedCall

\* C11: a checkAnswer or saveProgress call whose sessionId matches no row of
\* study_sessions, and whose insert the storage has no other cause to reject,
\* inserts its quiz_results row, logs no error and returns its success
\* payload.
C11_AdvisoryForeignKey ==
  (/\ last.op \in { "checkAnswer", "saveProgress" }
   /\ ~last.sessionKnown
   /\ last.storageOk) =>
    /\ last.insertOk
    /\ last.logged = None
    /\ \E r \in quiz_results :
         r.id = last.generatedId /\ r.session_id \notin SessionIds
    /\ last.op = "saveProgress" => last.result.success

\* the counts of one aggregate are consistent: correct <= total, and the
\* accuracy is a percentage
ConsistentCounts(total, correct, accuracy) ==
  /\ 0 <= correct
  /\ correct <= total
  /\ accuracy \in 0..Percent

\* C12: every result getStudyStats returns, with answer inserts of other
\* calls interleaved before and after it, is the picture of one state of the
\* tables: the overall counts are those of the table as the call left it,
\* correctAnswers <= totalQuestionsAnswered, and every accuracy it reports
\* (overall, per session, per topic) is between 0 and 100.
C12_ConsistentSnapshot ==
  (last.op = "getStudyStats" /\ last.queriesOk) =>
    LET res == last.result
    IN  /\ res.overall.totalQuestionsAnswered = Cardinality(quiz_results)
        /\ ConsistentCounts(res.overall.totalQuestionsAnswered,
                            res.overall.correctAnswers, res.overall.accuracy)
        /\ \A j \in DOMAIN res.recentSessions :
             ConsistentCounts(res.recentSessions[j].questionsAnswered,
                              res.recentSessions[j].correctCount,
                              res.recentSessions[j].accuracy)
        /\ res.topicStats # None =>
             ConsistentCounts(res.topicStats[1].totalQuestions,
                              res.topicStats[1].correctAnswers,
                              res.topicStats[1].accuracy)

\* a result returned between inserts: both counts positive and different
C12_Witness ==
  /\ last.op = "getStudyStats"
  /\ last.queriesOk
  /\ last.result.overall.totalQuestionsAnswered = 2
  /\ last.result.overall.correctAnswers = 1
  /\ last.result.overall.accuracy = 50
  /\ last.result.topicStats # None
  /\ last.result.topicStats[1].totalQuestions = 1

\* the results whose session_id matches no row of study_sessions
Orphans == { r \in quiz_results : r.session_id \notin SessionIds }

\* the questions answered, summed over the rows of a per-session report
RECURSIVE SumAnswered(_)
SumAnswered(rows) ==
  IF rows = <<>> THEN 0
  ELSE Head(rows).questionsAnswered + SumAnswered(Tail(rows))

\* the per-session aggregate over all sessions, before the LIMIT
AllSessionRows == [i \in 1..Len(study_sessions) |-> SessionRow(i)]

\* C13: the questions answered summed over all sessions are the results that
\* refer to an existing session, so at most the overall count, and equal to it
\* exactly when no result refers to a missing session; a result of
\* getStudyStats that lists every session shows the same, and its topic
\* statistics count no result of a missing session.
C13_SessionAggregatesSkipOrphans ==
  /\ SumAnswered(AllSessionRows) = CountResults - Cardinality(Orphans)
  /\ SumAnswered(AllSessionRows) <= CountResults
  /\ (SumAnswered(AllSessionRows) = CountResults) <=> (Orphans = {})
  /\ (last.op = "getStudyStats" /\ last.queriesOk) =>
       LET res == last.result
           listed == SumAnswered(res.recentSessions)
       IN  /\ Len(study_sessions) <= RecentLimit =>
                /\ listed <= res.overall.totalQuestionsAnswered
                /\ (listed = res.overall.totalQuestionsAnswered)
                     <=> (Orphans = {})
           /\ listed <= res.overall.totalQuestionsAnswered
           /\ res.topicStats # None =>
                res.topicStats[1].totalQuestions
                  <= res.overall.totalQuestionsAnswered - Cardinality(Orphans)

\* a report taken with one result in a session and one referring to none
C13_Witness ==
  /\ last.op = "getStudyStats"
  /\ last.queriesOk
  /\ Cardinality(Orphans) = 1
  /\ SumAnswered(last.result.recentSessions) = 1
  /\ last.result.overall.totalQuestionsAnswered = 2

====
